---- MODULE Spec2Model ----
(***************************************************************************)
(* Model of src/main.py: a FastAPI service with twelve handlers (create,   *)
(* fetch, replace, delete for sprites, audio and player scores) over three *)
(* MongoDB collections, each request served with its own client from the   *)
(* get_db dependency.                                                      *)
(*                                                                         *)
(* Granularity.  Every handler issues exactly one store operation, and the *)
(* store executes one operation atomically, so a handler is one action:    *)
(* the steps before and after its store operation touch nothing shared.    *)
(* Requests interleave between the three steps of a request: get_db up to  *)
(* its yield (Acquire), the handler, and get_db's finally (Close).  A slot *)
(* r of Reqs serves one request after another.  The request a handler was  *)
(* given and the response it produced are held in resp until the response  *)
(* is sent (Deliver), the next step after the handler's.                   *)
(*                                                                         *)
(* The MongoDB client is built at line 18 with a plain constructor call    *)
(* that is not awaited: it issues no command to the server, so it does not *)
(* observe whether the store is reachable.  A store operation issued while *)
(* the store is unreachable raises, and the exception leaves the handler.  *)
(* Spec is the service over a store that answers; SpecOutage lets the      *)
(* store stop answering, and answer again, at any moment.                  *)
(***************************************************************************)
EXTENDS Integers, Sequences, FiniteSets, TLC

\* ------------------------------------------------------------- bounds
NumReqs == 2        \* request slots that may be in flight together
MaxDocs == 2        \* documents created in one run (ObjectIds generated)

\* ------------------------------------------------- program constants
MinNameLen == 1
MaxNameLen == 50
MinScore == 0
MaxScore == 999999
OidHexLen == 24     \* an ObjectId reads and prints as 24 hex digits

Reqs == 1..NumReqs
Oids == 1..MaxDocs
Kinds == {"sprites", "audio", "scores"}

\* ------------------------------------------------------ ObjectId <-> str
HexDigits == <<"0","1","2","3","4","5","6","7","8","9","a","b","c","d","e","f">>

HexVal(c) == (CHOOSE i \in 1..16 : HexDigits[i] = c) - 1

IsHex(c) == \E i \in 1..16 : HexDigits[i] = c

RECURSIVE ToHex(_, _)
ToHex(n, w) ==
    IF w = 0 THEN <<>>
    ELSE Append(ToHex(n \div 16, w - 1), HexDigits[(n % 16) + 1])

RECURSIVE FromHex(_)
FromHex(s) ==
    IF s = <<>> THEN 0
    ELSE 16 * FromHex(SubSeq(s, 1, Len(s) - 1)) + HexVal(s[Len(s)])

\* str(result.inserted_id)
str(oid) == ToHex(oid, OidHexLen)

\* ObjectId(id) raises InvalidId unless id is OidHexLen hex digits
ObjectIdValid(id) == Len(id) = OidHexLen /\ \A i \in 1..Len(id) : IsHex(id[i])

ObjectId(id) == FromHex(id)

\* ---------------------------------------------------------------- inputs
Name(n) == [i \in 1..n |-> "a"]

Files ==
    { [filename |-> "a.png", content |-> <<137, 80>>],
      [filename |-> "b.wav", content |-> <<82>>] }

\* payloads with names of 0, 1, 50 and 51 characters and scores around 0 and 999999
ScorePayloads ==
    { [player_name |-> Name(1),  score |-> 0],
      [player_name |-> Name(50), score |-> 999999],
      [player_name |-> Name(0),  score |-> 0],
      [player_name |-> Name(51), score |-> 999999],
      [player_name |-> Name(1),  score |-> -1],
      [player_name |-> Name(50), score |-> 1000000] }

\* path ids: the string of every ObjectId the run can generate, and one
\* that is no ObjectId ("/sprites/42")
BadId == <<"4", "2">>
IdStrs == {str(o) : o \in Oids} \cup {BadId}

\* ----------------------------------------------------------------- state
VARIABLES
    db,           \* db[k]: the documents of collection k, each with an _id
    nextId,       \* the next ObjectId the driver generates
    reachable,    \* whether the store answers
    pc,           \* pc[r]: idle, open (get_db yielded), done (the handler has left)
    openClients,  \* the requests whose client is built and not yet closed
    resp,         \* the request and response of the latest handler to leave
    lastGood,     \* lastGood[o]: the payload of the latest successful create or replace
                  \* of score o, until a delete of o succeeds
    delOK         \* delOK[o]: the deletes of o that returned success

vars == <<db, nextId, reachable, pc, openClients, resp, lastGood, delOK>>

None == [none |-> TRUE]

NoResp == [r |-> 0, op |-> "-", kind |-> "-", idstr |-> <<>>, payload |-> None,
           status |-> 0, body |-> None, trace |-> <<>>]

Init ==
    /\ db = [k \in Kinds |-> {}]
    /\ nextId = 1
    /\ reachable = TRUE
    /\ pc = [r \in Reqs |-> "idle"]
    /\ openClients = {}
    /\ resp = NoResp
    /\ lastGood = [o \in Oids |-> None]
    /\ delOK = [o \in Oids |-> 0]

\* -------------------------------------------------------- the store
\* a driver that hands out the id it generated last
ReusedObjectId == IF nextId > 1 THEN nextId - 1 ELSE nextId

\* the ObjectId the driver generates for a document inserted without one
NewObjectId == nextId

WithId(doc, oid) ==
    [f \in DOMAIN doc \cup {"_id"} |-> IF f = "_id" THEN oid ELSE doc[f]]

\* an update that fills in only the fields the document lacks
MergeKeepOld(doc, set) ==
    [f \in DOMAIN doc \cup DOMAIN set |-> IF f \in DOMAIN doc THEN doc[f] ELSE set[f]]

\* $set: the fields named are overwritten, the others are kept
Merge(doc, set) ==
    [f \in DOMAIN doc \cup DOMAIN set |-> IF f \in DOMAIN set THEN set[f] ELSE doc[f]]

Matching(coll, oid) == {d \in coll : d._id = oid}

insert_one(coll, doc) ==
    [coll |-> coll \cup {WithId(doc, NewObjectId)}, inserted_id |-> NewObjectId]

find_one(coll, oid) ==
    IF Matching(coll, oid) = {} THEN None ELSE CHOOSE d \in Matching(coll, oid) : TRUE

\* update_one(..., upsert=True)
update_one_upsert(coll, oid, set) ==
    IF {d \in coll : d._id = oid} = {}
    THEN [coll |-> coll \cup {WithId(set, oid)}, matched_count |-> 0]
    ELSE LET d == CHOOSE x \in {y \in coll : y._id = oid} : TRUE
         IN [coll |-> (coll \ {d}) \cup {Merge(d, set)}, matched_count |-> 1]

update_one(coll, oid, set) ==
    IF Matching(coll, oid) = {}
    THEN [coll |-> coll, matched_count |-> 0]
    ELSE LET d == CHOOSE x \in Matching(coll, oid) : TRUE
         IN [coll |-> (coll \ {d}) \cup {Merge(d, set)}, matched_count |-> 1]

\* a delete that reports the document removed and leaves it
delete_one_keep(coll, oid) ==
    [coll |-> coll, deleted_count |-> IF {d \in coll : d._id = oid} = {} THEN 0 ELSE 1]

\* a delete that reports one document removed whether or not one matched
delete_one_always(coll, oid) ==
    [coll |-> {d \in coll : d._id # oid}, deleted_count |-> 1]

delete_one(coll, oid) ==
    IF Matching(coll, oid) = {}
    THEN [coll |-> coll, deleted_count |-> 0]
    ELSE LET d == CHOOSE x \in Matching(coll, oid) : TRUE
         IN [coll |-> coll \ {d}, deleted_count |-> 1]

\* ------------------------------------------------------------ get_db
\* get_db up to its yield: a new client for this request, built without
\* asking the server
Acquire(r) ==
    /\ resp = NoResp
    /\ pc[r] = "idle"
    /\ pc' = [pc EXCEPT ![r] = "open"]
    /\ openClients' = openClients \cup {r}
    /\ UNCHANGED <<db, nextId, reachable, resp, lastGood, delOK>>

\* get_db without the close
CloseLeak(r) ==
    /\ resp = NoResp
    /\ pc[r] = "done"
    /\ pc' = [pc EXCEPT ![r] = "idle"]
    /\ UNCHANGED <<db, nextId, reachable, openClients, resp, lastGood, delOK>>

\* get_db's finally: client.close(), whatever way the handler left; the
\* request is over and its slot serves the next one
Close(r) ==
    /\ resp = NoResp
    /\ pc[r] = "done"
    /\ pc' = [pc EXCEPT ![r] = "idle"]
    /\ openClients' = openClients \ {r}
    /\ UNCHANGED <<db, nextId, reachable, resp, lastGood, delOK>>

StoreDown ==
    /\ resp = NoResp
    /\ reachable
    /\ reachable' = FALSE
    /\ UNCHANGED <<db, nextId, pc, openClients, resp, lastGood, delOK>>

StoreUp ==
    /\ resp = NoResp
    /\ ~reachable
    /\ reachable' = TRUE
    /\ UNCHANGED <<db, nextId, pc, openClients, resp, lastGood, delOK>>

\* ------------------------------------------------- what the caller sees
\* the histories lastGood and delOK are kept from requests and responses
\* alone: the payload a successful score create or replace carried, under the
\* id the create returned or the replace named, and the deletes answered
\* with success
Observe(op, kind, idstr, payload, status, body) ==
    /\ lastGood' = IF kind = "scores" /\ status = 200 /\ op = "POST"
                   THEN [lastGood EXCEPT ![ObjectId(body.id)] = payload]
                   ELSE IF kind = "scores" /\ status = 200 /\ op = "PUT"
                   THEN [lastGood EXCEPT ![ObjectId(idstr)] = payload]
                   ELSE IF kind = "scores" /\ status = 200 /\ op = "DELETE"
                   THEN [lastGood EXCEPT ![ObjectId(idstr)] = None]
                   ELSE lastGood
    /\ delOK' = IF op = "DELETE" /\ status = 200
                THEN [delOK EXCEPT ![ObjectId(idstr)] = @ + 1]
                ELSE delOK

\* the handler of request r has left, with a response or an exception
Respond(r, op, kind, idstr, payload, status, body, trace) ==
    /\ pc' = [pc EXCEPT ![r] = "done"]
    /\ resp' = [r |-> r, op |-> op, kind |-> kind, idstr |-> idstr, payload |-> payload,
                status |-> status, body |-> body, trace |-> trace]
    /\ Observe(op, kind, idstr, payload, status, body)
    /\ UNCHANGED <<reachable, openClients>>

\* the response (or the error response) of the latest handler is sent; the
\* steps of other requests are taken before a handler leaves or after its
\* response is sent
Deliver ==
    /\ resp # NoResp
    /\ resp' = NoResp
    /\ UNCHANGED <<db, nextId, reachable, pc, openClients, lastGood, delOK>>

\* an exception that is no HTTPException leaves the handler: 500
ServerError == [detail |-> "Internal Server Error"]

\* raise HTTPException(status_code=404, detail=...)
NotFound(what) == [detail |-> what]

\* the body failed PlayerScore's validation: 422, the handler is not called
Unprocessable == [detail |-> "value is not a valid PlayerScore"]

\* score: int = Field(..., ge=0, lt=999999)
PlayerScoreValidLt(score) ==
    /\ Len(score.player_name) >= MinNameLen
    /\ Len(score.player_name) <= MaxNameLen
    /\ score.score >= MinScore
    /\ score.score < MaxScore

\* class PlayerScore
PlayerScoreValid(score) ==
    /\ Len(score.player_name) >= MinNameLen
    /\ Len(score.player_name) <= MaxNameLen
    /\ score.score >= MinScore
    /\ score.score <= MaxScore

\* score.dict()
dict(score) == [player_name |-> score.player_name, score |-> score.score]

\* ------------------------------------------------------------ sprites
upload_sprite(r, file) ==
    /\ resp = NoResp
    /\ pc[r] = "open"
    /\ reachable => nextId <= MaxDocs
    /\ LET sprite_doc == [filename |-> file.filename, content |-> file.content]
           result == insert_one(db["sprites"], sprite_doc)
       IN IF ~reachable
          THEN /\ UNCHANGED <<db, nextId>>
               /\ Respond(r, "POST", "sprites", <<>>, file, 500, ServerError,
                          <<"read", "doc", "store">>)
          ELSE /\ db' = [db EXCEPT !["sprites"] = result.coll]
               /\ nextId' = nextId + 1
               /\ Respond(r, "POST", "sprites", <<>>, file, 200,
                          [message |-> "Sprite uploaded", id |-> str(result.inserted_id)],
                          <<"read", "doc", "store">>)

get_sprite(r, id) ==
    /\ resp = NoResp
    /\ pc[r] = "open"
    /\ UNCHANGED <<db, nextId>>
    /\ IF ~ObjectIdValid(id)
       THEN Respond(r, "GET", "sprites", id, None, 500, ServerError, <<"oid">>)
       ELSE IF ~reachable
       THEN Respond(r, "GET", "sprites", id, None, 500, ServerError, <<"oid", "store">>)
       ELSE LET sprite == find_one(db["sprites"], ObjectId(id))
            IN IF sprite = None
               THEN Respond(r, "GET", "sprites", id, None, 404,
                            NotFound("Sprite not found"), <<"oid", "store">>)
               ELSE Respond(r, "GET", "sprites", id, None, 200,
                            [filename |-> sprite.filename], <<"oid", "store">>)

update_sprite(r, id, file) ==
    /\ resp = NoResp
    /\ pc[r] = "open"
    /\ UNCHANGED nextId
    /\ IF ~ObjectIdValid(id)
       THEN /\ UNCHANGED db
            /\ Respond(r, "PUT", "sprites", id, file, 500, ServerError, <<"read", "oid">>)
       ELSE IF ~reachable
       THEN /\ UNCHANGED db
            /\ Respond(r, "PUT", "sprites", id, file, 500, ServerError,
                       <<"read", "oid", "doc", "store">>)
       ELSE LET result == update_one(db["sprites"], ObjectId(id),
                                     [filename |-> file.filename, content |-> file.content])
            IN /\ db' = [db EXCEPT !["sprites"] = result.coll]
               /\ IF result.matched_count = 0
                  THEN Respond(r, "PUT", "sprites", id, file, 404,
                               NotFound("Sprite not found"),
                               <<"read", "oid", "doc", "store">>)
                  ELSE Respond(r, "PUT", "sprites", id, file, 200,
                               [message |-> "Sprite updated"],
                               <<"read", "oid", "doc", "store">>)

delete_sprite(r, id) ==
    /\ resp = NoResp
    /\ pc[r] = "open"
    /\ UNCHANGED nextId
    /\ IF ~ObjectIdValid(id)
       THEN /\ UNCHANGED db
            /\ Respond(r, "DELETE", "sprites", id, None, 500, ServerError, <<"oid">>)
       ELSE IF ~reachable
       THEN /\ UNCHANGED db
            /\ Respond(r, "DELETE", "sprites", id, None, 500, ServerError,
                       <<"oid", "store">>)
       ELSE LET result == delete_one(db["sprites"], ObjectId(id))
            IN /\ db' = [db EXCEPT !["sprites"] = result.coll]
               /\ IF result.deleted_count = 0
                  THEN Respond(r, "DELETE", "sprites", id, None, 404,
                               NotFound("Sprite not found"), <<"oid", "store">>)
                  ELSE Respond(r, "DELETE", "sprites", id, None, 200,
                               [message |-> "Sprite deleted"], <<"oid", "store">>)

\* ------------------------------------------------------------ audio
\* upload_audio writing to db.sprites
upload_audio_into_sprites(r, file) ==
    /\ resp = NoResp
    /\ pc[r] = "open"
    /\ reachable => nextId <= MaxDocs
    /\ LET audio_doc == [filename |-> file.filename, content |-> file.content]
           result == insert_one(db["sprites"], audio_doc)
       IN IF ~reachable
          THEN /\ UNCHANGED <<db, nextId>>
               /\ Respond(r, "POST", "audio", <<>>, file, 500, ServerError,
                          <<"read", "doc", "store">>)
          ELSE /\ db' = [db EXCEPT !["sprites"] = result.coll]
               /\ nextId' = nextId + 1
               /\ Respond(r, "POST", "audio", <<>>, file, 200,
                          [message |-> "Audio file uploaded", id |-> str(result.inserted_id)],
                          <<"read", "doc", "store">>)

upload_audio(r, file) ==
    /\ resp = NoResp
    /\ pc[r] = "open"
    /\ reachable => nextId <= MaxDocs
    /\ LET audio_doc == [filename |-> file.filename, content |-> file.content]
           result == insert_one(db["audio"], audio_doc)
       IN IF ~reachable
          THEN /\ UNCHANGED <<db, nextId>>
               /\ Respond(r, "POST", "audio", <<>>, file, 500, ServerError,
                          <<"read", "doc", "store">>)
          ELSE /\ db' = [db EXCEPT !["audio"] = result.coll]
               /\ nextId' = nextId + 1
               /\ Respond(r, "POST", "audio", <<>>, file, 200,
                          [message |-> "Audio file uploaded", id |-> str(result.inserted_id)],
                          <<"read", "doc", "store">>)

get_audio(r, id) ==
    /\ resp = NoResp
    /\ pc[r] = "open"
    /\ UNCHANGED <<db, nextId>>
    /\ IF ~ObjectIdValid(id)
       THEN Respond(r, "GET", "audio", id, None, 500, ServerError, <<"oid">>)
       ELSE IF ~reachable
       THEN Respond(r, "GET", "audio", id, None, 500, ServerError, <<"oid", "store">>)
       ELSE LET audio == find_one(db["audio"], ObjectId(id))
            IN IF audio = None
               THEN Respond(r, "GET", "audio", id, None, 404,
                            NotFound("Audio not found"), <<"oid", "store">>)
               ELSE Respond(r, "GET", "audio", id, None, 200,
                            [filename |-> audio.filename], <<"oid", "store">>)

update_audio(r, id, file) ==
    /\ resp = NoResp
    /\ pc[r] = "open"
    /\ UNCHANGED nextId
    /\ IF ~ObjectIdValid(id)
       THEN /\ UNCHANGED db
            /\ Respond(r, "PUT", "audio", id, file, 500, ServerError, <<"read", "oid">>)
       ELSE IF ~reachable
       THEN /\ UNCHANGED db
            /\ Respond(r, "PUT", "audio", id, file, 500, ServerError,
                       <<"read", "oid", "doc", "store">>)
       ELSE LET result == update_one(db["audio"], ObjectId(id),
                                     [filename |-> file.filename, content |-> file.content])
            IN /\ db' = [db EXCEPT !["audio"] = result.coll]
               /\ IF result.matched_count = 0
                  THEN Respond(r, "PUT", "audio", id, file, 404,
                               NotFound("Audio not found"),
                               <<"read", "oid", "doc", "store">>)
                  ELSE Respond(r, "PUT", "audio", id, file, 200,
                               [message |-> "Audio updated"],
                               <<"read", "oid", "doc", "store">>)

delete_audio(r, id) ==
    /\ resp = NoResp
    /\ pc[r] = "open"
    /\ UNCHANGED nextId
    /\ IF ~ObjectIdValid(id)
       THEN /\ UNCHANGED db
            /\ Respond(r, "DELETE", "audio", id, None, 500, ServerError, <<"oid">>)
       ELSE IF ~reachable
       THEN /\ UNCHANGED db
            /\ Respond(r, "DELETE", "audio", id, None, 500, ServerError,
                       <<"oid", "store">>)
       ELSE LET result == delete_one(db["audio"], ObjectId(id))
            IN /\ db' = [db EXCEPT !["audio"] = result.coll]
               /\ IF result.deleted_count = 0
                  THEN Respond(r, "DELETE", "audio", id, None, 404,
                               NotFound("Audio not found"), <<"oid", "store">>)
                  ELSE Respond(r, "DELETE", "audio", id, None, 200,
                               [message |-> "Audio deleted"], <<"oid", "store">>)

\* ------------------------------------------------------------- scores
add_score(r, score) ==
    /\ resp = NoResp
    /\ pc[r] = "open"
    /\ (PlayerScoreValid(score) /\ reachable) => nextId <= MaxDocs
    /\ IF ~PlayerScoreValid(score)
       THEN /\ UNCHANGED <<db, nextId>>
            /\ Respond(r, "POST", "scores", <<>>, score, 422, Unprocessable, <<>>)
       ELSE LET score_doc == dict(score)
                result == insert_one(db["scores"], score_doc)
            IN IF ~reachable
               THEN /\ UNCHANGED <<db, nextId>>
                    /\ Respond(r, "POST", "scores", <<>>, score, 500, ServerError,
                               <<"doc", "store">>)
               ELSE /\ db' = [db EXCEPT !["scores"] = result.coll]
                    /\ nextId' = nextId + 1
                    /\ Respond(r, "POST", "scores", <<>>, score, 200,
                               [message |-> "Score recorded", id |-> str(result.inserted_id)],
                               <<"doc", "store">>)

get_score(r, id) ==
    /\ resp = NoResp
    /\ pc[r] = "open"
    /\ UNCHANGED <<db, nextId>>
    /\ IF ~ObjectIdValid(id)
       THEN Respond(r, "GET", "scores", id, None, 500, ServerError, <<"oid">>)
       ELSE IF ~reachable
       THEN Respond(r, "GET", "scores", id, None, 500, ServerError, <<"oid", "store">>)
       ELSE LET score == find_one(db["scores"], ObjectId(id))
            IN IF score = None
               THEN Respond(r, "GET", "scores", id, None, 404,
                            NotFound("Score not found"), <<"oid", "store">>)
               ELSE Respond(r, "GET", "scores", id, None, 200,
                            [player_name |-> score.player_name, score |-> score.score],
                            <<"oid", "store">>)

update_score(r, id, score) ==
    /\ resp = NoResp
    /\ pc[r] = "open"
    /\ UNCHANGED nextId
    /\ IF ~PlayerScoreValid(score)
       THEN /\ UNCHANGED db
            /\ Respond(r, "PUT", "scores", id, score, 422, Unprocessable, <<>>)
       ELSE IF ~ObjectIdValid(id)
       THEN /\ UNCHANGED db
            /\ Respond(r, "PUT", "scores", id, score, 500, ServerError, <<"oid">>)
       ELSE IF ~reachable
       THEN /\ UNCHANGED db
            /\ Respond(r, "PUT", "scores", id, score, 500, ServerError,
                       <<"oid", "doc", "store">>)
       ELSE LET result == update_one(db["scores"], ObjectId(id), dict(score))
            IN /\ db' = [db EXCEPT !["scores"] = result.coll]
               /\ IF result.matched_count = 0
                  THEN Respond(r, "PUT", "scores", id, score, 404,
                               NotFound("Score not found"), <<"oid", "doc", "store">>)
                  ELSE Respond(r, "PUT", "scores", id, score, 200,
                               [message |-> "Score updated"], <<"oid", "doc", "store">>)

delete_score(r, id) ==
    /\ resp = NoResp
    /\ pc[r] = "open"
    /\ UNCHANGED nextId
    /\ IF ~ObjectIdValid(id)
       THEN /\ UNCHANGED db
            /\ Respond(r, "DELETE", "scores", id, None, 500, ServerError, <<"oid">>)
       ELSE IF ~reachable
       THEN /\ UNCHANGED db
            /\ Respond(r, "DELETE", "scores", id, None, 500, ServerError,
                       <<"oid", "store">>)
       ELSE LET result == delete_one(db["scores"], ObjectId(id))
            IN /\ db' = [db EXCEPT !["scores"] = result.coll]
               /\ IF result.deleted_count = 0
                  THEN Respond(r, "DELETE", "scores", id, None, 404,
                               NotFound("Score not found"), <<"oid", "store">>)
                  ELSE Respond(r, "DELETE", "scores", id, None, 200,
                               [message |-> "Score deleted"], <<"oid", "store">>)

\* ------------------------------------------------------------ the service
Next ==
    \/ \E r \in Reqs : Acquire(r)
    \/ \E r \in Reqs : Close(r)
    \/ Deliver
    \/ \E r \in Reqs, file \in Files : upload_sprite(r, file)
    \/ \E r \in Reqs, id \in IdStrs : get_sprite(r, id)
    \/ \E r \in Reqs, id \in IdStrs, file \in Files : update_sprite(r, id, file)
    \/ \E r \in Reqs, id \in IdStrs : delete_sprite(r, id)
    \/ \E r \in Reqs, file \in Files : upload_audio(r, file)
    \/ \E r \in Reqs, id \in IdStrs : get_audio(r, id)
    \/ \E r \in Reqs, id \in IdStrs, file \in Files : update_audio(r, id, file)
    \/ \E r \in Reqs, id \in IdStrs : delete_audio(r, id)
    \/ \E r \in Reqs, score \in ScorePayloads : add_score(r, score)
    \/ \E r \in Reqs, id \in IdStrs : get_score(r, id)
    \/ \E r \in Reqs, id \in IdStrs, score \in ScorePayloads : update_score(r, id, score)
    \/ \E r \in Reqs, id \in IdStrs : delete_score(r, id)

\* the service over a store that answers
Spec == Init /\ [][Next]_vars

\* the service over a store that may stop answering, and answer again, at
\* any moment
NextOutage ==
    \/ Next
    \/ StoreDown
    \/ StoreUp

SpecOutage == Init /\ [][NextOutage]_vars

\* ============================================================ properties
HandlerStep == resp = NoResp /\ resp' # NoResp

Ids(coll) == {d._id : d \in coll}

ById == {"GET", "PUT", "DELETE"}

\* the id the latest request named, as the store's identifier
RespOid == ObjectId(resp.idstr)

\* C1: every request in flight holds its own open client from get_db, from
\* the yield until its handler has left (with a response, a 404 or an
\* unhandled error); the client is closed by the step that ends the request
\* and by no other, that step closes a client that is still open, and a
\* request that is over holds no open client, so that with no request in
\* flight no client is open.
C1_ClientClosedOnceAfterHandler ==
    /\ [](\A r \in Reqs : (pc[r] \in {"open", "done"}) <=> (r \in openClients))
    /\ []((\A r \in Reqs : pc[r] = "idle") => openClients = {})
    /\ [][\A r \in Reqs :
            /\ (r \in openClients /\ r \notin openClients')
                  => (pc[r] = "done" /\ pc'[r] = "idle")
            /\ (pc[r] = "done" /\ pc'[r] # "done")
                  => (pc'[r] = "idle" /\ r \in openClients /\ r \notin openClients')
            /\ (r \notin openClients /\ r \in openClients')
                  => (pc[r] = "idle" /\ pc'[r] = "open")]_vars

\* a handler has just left with the store's error, unhandled, while the
\* request that created a document before is over: only the failed request's
\* client is open
C1_Witness ==
    /\ resp.status = 500
    /\ ~reachable
    /\ \E i \in 1..Len(resp.trace) : resp.trace[i] = "store"
    /\ pc[resp.r] = "done"
    /\ openClients = {resp.r}
    /\ \E k \in Kinds : db[k] # {}
    /\ \E r \in Reqs : r # resp.r /\ pc[r] = "idle"

\* C2: a replace that reaches the store (the body is valid, the store
\* answers) with a well-formed id matching no document of the collection is
\* answered 404 and leaves every collection as it was.
C2_ReplaceOfMissingIdChangesNothing ==
    [][(/\ HandlerStep
        /\ resp'.op = "PUT"
        /\ resp'.status # 422
        /\ reachable
        /\ ObjectIdValid(resp'.idstr)
        /\ ObjectId(resp'.idstr) \notin Ids(db[resp'.kind]))
       => (resp'.status = 404 /\ db' = db)]_vars

\* a replace of an id that is not in a collection that holds a document
C2_Witness ==
    /\ resp.op = "PUT"
    /\ resp.status = 404
    /\ db[resp.kind] # {}
    /\ RespOid \notin Ids(db[resp.kind])

\* C3: a fetch of a score that is answered by the store returns 200 exactly
\* when the id was returned by a create and no delete of it has succeeded
\* since, and its body is then exactly the player_name and score of the latest
\* successful create or replace of that id.
C3_FetchReturnsLatestScore ==
    (resp.op = "GET" /\ resp.kind = "scores" /\ resp.status \in {200, 404})
       => /\ (resp.status = 200) <=> (lastGood[RespOid] # None)
          /\ resp.status = 200 => resp.body = lastGood[RespOid]

\* of two scores stored, the one fetched is returned with its own payload
C3_Witness ==
    /\ resp.op = "GET" /\ resp.kind = "scores" /\ resp.status = 200
    /\ resp.body = [player_name |-> Name(50), score |-> 999999]
    /\ \E o \in Oids : o # RespOid /\ lastGood[o] = [player_name |-> Name(1), score |-> 0]

\* C4: no two documents of a collection share an id; a create adds one
\* document, under the id it returns and with the fields it was given, and
\* nothing else ever adds an id to a collection; a replace leaves the set
\* of ids of every collection as it was and, when it succeeds, the document
\* under the id it named carries the new fields.
C4_IdsUniqueAndStable ==
    /\ [](\A k \in Kinds : \A d1, d2 \in db[k] : d1._id = d2._id => d1 = d2)
    /\ [][HandlerStep =>
            /\ (resp'.op = "POST" /\ resp'.status = 200)
                  => /\ ObjectIdValid(resp'.body.id)
                     /\ ObjectId(resp'.body.id) \notin Ids(db[resp'.kind])
                     /\ db'[resp'.kind] = db[resp'.kind]
                           \cup {WithId(resp'.payload, ObjectId(resp'.body.id))}
            /\ ~(resp'.op = "POST" /\ resp'.status = 200)
                  => \A k \in Kinds : Ids(db'[k]) \subseteq Ids(db[k])
            /\ resp'.op = "PUT"
                  => \A k \in Kinds : Ids(db'[k]) = Ids(db[k])
            /\ (resp'.op = "PUT" /\ resp'.status = 200)
                  => WithId(resp'.payload, ObjectId(resp'.idstr)) \in db'[resp'.kind]]_vars

\* a sprite has been replaced in a collection of two: it is there under the
\* id the replace named, with the new filename
C4_Witness ==
    /\ resp.op = "PUT" /\ resp.kind = "sprites" /\ resp.status = 200
    /\ Cardinality(db["sprites"]) = 2
    /\ \E d \in db["sprites"] : d._id = RespOid /\ d.filename = resp.payload.filename

\* C5: once a delete of an id has returned success, no later fetch, replace
\* or delete of that id succeeds or changes a collection, and each one that
\* reaches the store is answered 404.
C5_DeletedStaysNotFound ==
    [][(/\ HandlerStep
        /\ resp'.op \in ById
        /\ ObjectIdValid(resp'.idstr)
        /\ delOK[ObjectId(resp'.idstr)] >= 1)
       => /\ resp'.status # 200
          /\ db' = db
          /\ (reachable /\ resp'.status # 422) => resp'.status = 404]_vars

\* a second delete of a deleted id has been answered 404
C5_Witness ==
    /\ resp.op = "DELETE"
    /\ resp.status = 404
    /\ delOK[RespOid] = 1

\* C6: a score create or replace is rejected (422) exactly when the name is
\* not 1 to 50 characters long or the score is not in 0..999999; a rejected
\* payload issues no store operation and changes no collection; every stored
\* score satisfies both bounds.
C6_ScoreBoundsEnforced ==
    /\ []((resp.kind = "scores" /\ resp.op \in {"POST", "PUT"})
            => ((resp.status # 422)
                  <=> /\ Len(resp.payload.player_name) \in 1..50
                      /\ resp.payload.score \in 0..999999))
    /\ [](\A d \in db["scores"] :
            Len(d.player_name) \in 1..50 /\ d.score \in 0..999999)
    /\ [][(HandlerStep /\ resp'.status = 422)
            => (db' = db /\ \A i \in 1..Len(resp'.trace) : resp'.trace[i] # "store")]_vars

\* a score of 1000000 has been rejected while a score of 999999 under a name
\* of 50 characters is stored
C6_Witness ==
    /\ resp.kind = "scores" /\ resp.status = 422 /\ resp.payload.score = 1000000
    /\ \E d \in db["scores"] : d.score = 999999 /\ Len(d.player_name) = 50

\* C7: a fetch, replace or delete whose id is no ObjectId issues no store
\* operation and is answered with a client error (4xx) other than 404.
C7_BadIdIsClientError ==
    (resp.op \in ById /\ ~ObjectIdValid(resp.idstr))
       => /\ resp.status \in 400..499
          /\ resp.status # 404
          /\ \A i \in 1..Len(resp.trace) : resp.trace[i] # "store"

\* C8: while the store is unreachable no request acquires a handle, and a
\* request answered then has run no step of its handler and is answered
\* with a server error.
C8_UnreachableFailsAtAcquire ==
    [][~reachable =>
          /\ \A r \in Reqs : ~(pc[r] = "idle" /\ pc'[r] = "open")
          /\ HandlerStep => (resp'.trace = <<>> /\ resp'.status = 500)]_vars

\* C9: a handler changes no collection but that of its own resource kind,
\* a fetch and every request answered 404 change no collection, and no step
\* that is not a handler changes one.
C9_OnlyOwnCollection ==
    [][/\ HandlerStep
          => /\ \A k \in Kinds \ {resp'.kind} : db'[k] = db[k]
             /\ (resp'.op = "GET" \/ resp'.status = 404) => db' = db
       /\ ~HandlerStep => db' = db]_vars

\* an audio upload has been stored while the sprites hold a document
C9_Witness ==
    /\ resp.op = "POST" /\ resp.kind = "audio" /\ resp.status = 200
    /\ db["sprites"] # {}
    /\ db["audio"] # {}

\* C10: with the handlers of concurrent requests interleaved, a delete that
\* the store answers succeeds exactly when the document is there and leaves
\* the id absent, so no id is deleted with success twice; a replace never
\* adds an id; and an id deleted with success is in no collection again.
C10_DeletedNeverComesBack ==
    /\ [](\A o \in Oids : delOK[o] <= 1)
    /\ [](\A o \in Oids : delOK[o] >= 1 => \A k \in Kinds : o \notin Ids(db[k]))
    /\ [][(HandlerStep /\ resp'.op = "DELETE" /\ ObjectIdValid(resp'.idstr) /\ reachable)
            => /\ (resp'.status = 200)
                     <=> (ObjectId(resp'.idstr) \in Ids(db[resp'.kind]))
               /\ ObjectId(resp'.idstr) \notin Ids(db'[resp'.kind])]_vars
    /\ [][(HandlerStep /\ resp'.op = "PUT")
            => \A k \in Kinds : Ids(db'[k]) \subseteq Ids(db[k])]_vars

\* of two requests in flight together on a deleted id, the later one, a
\* replace, has been answered 404 while the other has not yet been closed
C10_Witness ==
    /\ resp.op = "PUT"
    /\ resp.status = 404
    /\ delOK[RespOid] = 1
    /\ \E r \in Reqs : r # resp.r /\ pc[r] = "done"

====
